---- MODULE Spec2Model ----
(***************************************************************************)
(* Model of the moot legal-practice assistant.                             *)
(*                                                                         *)
(*   Spec       the chat route (server): one turn of the streaming         *)
(*              orchestration, from request parsing to controller.close()  *)
(*   SpecSession the chat route over the turns of a conversation           *)
(*   SpecClient the page (microphone arbitration) with its audio queue     *)
(*   SpecConversation the page and the session ids its turns carry         *)
(*   SpecAudio  the audio queue hook alone, driven by an arbitrary caller  *)
(*   SpecStore  the document scope store and the move-documents route      *)
(*   SpecMarkers the round trip of a record through a marker               *)
(*   SpecKV     the store's operations as loads and saves of the KV entry  *)
(*   SpecCase   the store as the application uses it for a case's documents*)
(*   SpecRuns   the document tools of turns that run at the same time      *)
(*                                                                         *)
(* Text is a sequence of tokens.  A token is one character of the text,    *)
(* except that the three marker prefixes and the JSON key are one token:   *)
(*   "[C:" = [CITATION:   "[D:" = [DOWNLOAD_LINK:   "[L:" = [LINK_PROVIDED:*)
(*   "T"   = "title":     "q"   = the double quote                         *)
(***************************************************************************)
EXTENDS Integers, Sequences, FiniteSets, TLC

VARIABLES
    \* ---- chat route (server side, one turn) ----
    pc,               \* position of the start() handler
    request,          \* the request of the turn: body, agent script
    events,           \* frames accepted by controller.enqueue, in order
    consumed,         \* number of agent events the for-await loop has taken
    fullTextResponse, \* let fullTextResponse
    sentenceIdx,      \* position of the audio loop in the sentence list
    synthesized,      \* ghost: per sentence handed to generateSpeech, whether audio came back
    cancelled,        \* the client disconnected: the stream is cancelled
    escaped,          \* an exception left the start() handler
    emitted,          \* ghost: per consumed agent event, the frames it sent
    sessions,         \* sessionService: session id -> number of events of the session
    history,          \* ghost: per turn that reached its session, what was decided
    turnNo,           \* number of the request being handled, from 1
    \* ---- document scope store (server side) ----
    store,            \* the persisted DocumentStore: session id -> documents
    currentSessionId, \* let currentSessionId ("" stands for null)
    uploads,          \* number of file ids handed out by crypto.randomUUID()
    lastCall,         \* ghost: the last store operation, what it answered
    \* ---- audio queue hook (browser) ----
    isPlaying,        \* useState isPlaying, as last set
    queue,            \* queueRef: decoded buffers waiting to be played
    isProcessing,     \* isProcessingRef
    isReceiving,      \* isReceivingRef
    playbackEndTimeout, \* the 500 ms timer of playbackEndTimeoutRef is pending
    sourceRef,        \* sourceRef: chunk of the current source, 0 for null
    decoding,         \* chunks whose decodeAudioData promise is pending
    sounding,         \* chunks whose source was started and has not fired onended
    added,            \* number of addToQueue calls
    stopped,          \* ghost: stop() has been called
    completeSince,    \* ghost: markStreamComplete() was called since the last addToQueue
    played,           \* ghost: the chunks whose source was started, in the order of source.start
    halted,           \* ghost: chunks whose source stop() has stopped and whose onended is still to come
    stoppedAt,        \* ghost: the number of addToQueue calls made before the last stop()
    \* ---- page (browser) ----
    isAiSpeaking,     \* useState isAiSpeaking, as last set
    inputMode,        \* useState inputMode
    sessionState,     \* useState sessionState
    selectedVoiceId,  \* useState selectedVoiceId is non-empty
    caseContext,      \* useState caseContext is non-null
    clientSessionId,  \* useState sessionId of the page, as last set ("" stands for null)
    isStreamActiveRef,
    shouldAcceptSpeechRef,
    wasAiSpeakingRef,
    micCooldown,      \* the 500 ms timer of micCooldownRef: "off", or what it will do
    recognition,      \* the SpeechRecognition object: "off", "on", "stopping"
    rendered,         \* the state values of the last committed render
    turns,            \* the handleSendMessage calls: where each is, its closure
    lastTranscript,   \* ghost: the last final transcript and what became of it
    \* ---- marker round trip (tools and chat route) ----
    markerPc,         \* "record", "embedded", "extracted"
    record,           \* the record a tool embeds: its shape and fields
    marker,           \* the tool's result text
    extracted,        \* what the driver's pattern captured from it
    \* ---- document scope store over the durable backend (KV) ----
    kv,               \* the KV service: "up" or "down" (unreachable)
    outages,          \* number of times the KV service went down
    calls,            \* the store operations started: where each is, what it answered
    \* ---- turns that run at the same time (server side) ----
    running,          \* the session ids of the chat route's turns whose agent is running
    lastTool          \* ghost: the last document tool call: the turn's session, the session used

chatVars == <<pc, request, events, consumed, fullTextResponse, sentenceIdx, synthesized,
              cancelled, escaped, emitted, sessions, history, turnNo>>

\* the session service and what the ghost keeps of the turns
sessionVars == <<sessions, history, turnNo>>

storeVars == <<store, currentSessionId, uploads, lastCall>>

audioVars == <<isPlaying, queue, isProcessing, isReceiving, playbackEndTimeout,
               sourceRef, decoding, sounding, added, stopped, completeSince,
               played, halted, stoppedAt>>

pageVars == <<isAiSpeaking, inputMode, sessionState, selectedVoiceId, caseContext,
              clientSessionId,              isStreamActiveRef, shouldAcceptSpeechRef, wasAiSpeakingRef,
              micCooldown, recognition, rendered, turns, lastTranscript>>

markerVars == <<markerPc, record, marker, extracted>>

kvVars == <<kv, outages, calls>>

\* the state of the parts that are modelled on their own
runVars == <<running, lastTool>>

extraVars == <<markerVars, kvVars, runVars>>

\* what the chat route's start() handler leaves alone
notChat == <<storeVars, audioVars, pageVars, extraVars>>

\* what the store's operations leave alone
notStore == <<chatVars, audioVars, pageVars, extraVars>>

\* what the audio queue hook leaves alone
notAudio == <<chatVars, storeVars, pageVars, extraVars>>

\* what the browser leaves alone
notBrowser == <<chatVars, storeVars, extraVars>>

vars == <<chatVars, storeVars, audioVars, pageVars, extraVars>>

----------------------------------------------------------------------------
(* Bounds *)

MaxEvents == 3
MaxPartials == 2
MaxSegs == 3

----------------------------------------------------------------------------
(* Text helpers *)

SetMin(S) == CHOOSE x \in S : \A y \in S : x <= y

\* crypto.randomUUID(): the n-th id handed out
Uuid(n) == "uuid" \o ToString(n)

Whitespace == {" "}

\* String.prototype.trim() leaves something: a token that is not whitespace
NonBlank(s) == \E i \in 1..Len(s) : s[i] \notin Whitespace

RECURSIVE Flatten(_)
Flatten(ss) == IF ss = <<>> THEN <<>> ELSE Head(ss) \o Flatten(Tail(ss))

\* first index >= from holding token t, 0 when there is none
FirstAt(s, from, t) ==
    LET C == {k \in from..Len(s) : s[k] = t}
    IN  IF C = {} THEN 0 ELSE SetMin(C)

----------------------------------------------------------------------------
(* The marker patterns.  XxxEnd(s, i) is the index of the last token of   *)
(* the match of the pattern that starts at index i, 0 when the pattern    *)
(* does not match there.                                                  *)

\* /\[CITATION:(\{[\s\S]*?\})\]/ : lazy, up to the first "}]"
CitationEnd(s, i) ==
    LET C == {k \in (i + 2)..(Len(s) - 1) : s[k] = "}" /\ s[k + 1] = "]"}
    IN  IF s[i] = "[C:" /\ i + 1 <= Len(s) /\ s[i + 1] = "{" /\ C # {}
        THEN SetMin(C) + 1 ELSE 0

\* prefix [^\]]+ \]  : up to the first "]", at least one token before it
BracketEnd(s, i, prefix) ==
    LET e == FirstAt(s, i + 1, "]")
    IN  IF s[i] = prefix /\ e >= i + 2 THEN e ELSE 0

\* /\[DOWNLOAD_LINK:([^\]]+)\]/
DownloadEnd(s, i) == BracketEnd(s, i, "[D:")

\* /\[LINK_PROVIDED:[^\]]+\]/ (the pattern that strips text)
LinkStripEnd(s, i) == BracketEnd(s, i, "[L:")

\* /\[LINK_PROVIDED:([^|]+)\|([^|]+)\|([^\]]*)\]/ (the pattern that extracts)
LinkBar1(s, i) == FirstAt(s, i + 1, "|")
LinkBar2(s, i) == IF LinkBar1(s, i) = 0 THEN 0 ELSE FirstAt(s, LinkBar1(s, i) + 1, "|")
LinkEnd(s, i) ==
    LET p1 == LinkBar1(s, i)
        p2 == LinkBar2(s, i)
        e  == IF p2 = 0 THEN 0 ELSE FirstAt(s, p2 + 1, "]")
    IN  IF s[i] = "[L:" /\ p1 >= i + 2 /\ p2 >= p1 + 2 /\ e # 0 THEN e ELSE 0

MatchEnd(p, s, i) ==
    CASE p = "citation"  -> CitationEnd(s, i)
      [] p = "download"  -> DownloadEnd(s, i)
      [] p = "linkstrip" -> LinkStripEnd(s, i)
      [] p = "link"      -> LinkEnd(s, i)

\* the next match at or after index from (regex.exec with the g flag)
NextMatch(p, s, from) ==
    LET M == {i \in from..Len(s) : MatchEnd(p, s, i) # 0}
    IN  IF M = {} THEN 0 ELSE SetMin(M)

\* all matches, left to right, as the indices where they start
RECURSIVE MatchesFrom(_, _, _)
MatchesFrom(p, s, from) ==
    LET i == NextMatch(p, s, from)
    IN  IF i = 0 THEN <<>>
        ELSE <<i>> \o MatchesFrom(p, s, MatchEnd(p, s, i) + 1)

\* text.replace(pattern, '') with the g flag
RECURSIVE StripFrom(_, _, _)
StripFrom(p, s, from) ==
    LET i == NextMatch(p, s, from)
    IN  IF i = 0 THEN SubSeq(s, from, Len(s))
        ELSE SubSeq(s, from, i - 1) \o StripFrom(p, s, MatchEnd(p, s, i) + 1)

\* const cleanText = part.text.replace(...).replace(...).replace(...)
CleanText(t) ==
    StripFrom("linkstrip", StripFrom("download", StripFrom("citation", t, 1), 1), 1)

----------------------------------------------------------------------------
(* JSON.parse on the token alphabet: an object is {} or {"title":value},  *)
(* a value is a string or an object; whitespace may separate the tokens.  *)

SkipWs(s, i) ==
    LET C == {k \in i..Len(s) : s[k] \notin Whitespace}
    IN  IF C = {} THEN Len(s) + 1 ELSE SetMin(C)

\* index of the last token of the JSON value starting at i, 0 when none
RECURSIVE JsonValueEnd(_, _)
JsonValueEnd(s, i) ==
    IF i > Len(s) THEN 0
    ELSE IF s[i] = "q"
    THEN LET e == FirstAt(s, i + 1, "q")
         IN  IF e # 0 /\ \A k \in (i + 1)..(e - 1) : s[k] # "T" THEN e ELSE 0
    ELSE IF s[i] = "{"
    THEN LET n == SkipWs(s, i + 1)
         IN  IF n > Len(s) THEN 0
             ELSE IF s[n] = "}" THEN n
             ELSE IF s[n] = "T"
             THEN LET v == JsonValueEnd(s, SkipWs(s, n + 1))
                      c == IF v = 0 THEN 0 ELSE SkipWs(s, v + 1)
                  IN  IF v # 0 /\ c <= Len(s) /\ s[c] = "}" THEN c ELSE 0
             ELSE 0
    ELSE 0

\* JSON.parse(jsonStr) does not throw
JsonParses(j) ==
    LET b == SkipWs(j, 1)
        e == JsonValueEnd(j, b)
    IN  b <= Len(j) /\ e # 0 /\ SkipWs(j, e + 1) > Len(j)

\* citationData.title || 'Source', for a jsonStr that parses to an object
JsonTitle(j) ==
    LET b == SkipWs(j, 1)
        n == SkipWs(j, b + 1)
        v == SkipWs(j, n + 1)
        e == JsonValueEnd(j, v)
    IN  IF j[n] = "}" THEN <<"Source">>
        ELSE IF j[v] = "q" /\ e = v + 1 THEN <<"Source">>
        ELSE IF j[v] = "q" THEN SubSeq(j, v + 1, e - 1)
        ELSE SubSeq(j, v, e)

----------------------------------------------------------------------------
(* The chat route: src/moot/app/hooks/useWebSpeech.ts, POST.               *)

Frame(type, val) == [type |-> type, val |-> val]

TextPart(t)    == [kind |-> "text", text |-> t, name |-> ""]
CallPart(n)    == [kind |-> "functionCall", text |-> <<>>, name |-> n]
RespPart(n, r) == [kind |-> "functionResponse", text |-> r, name |-> n]

\* an event of runner.runAsync: partial is true, false or absent
AgentEvent(partial, hasContent, parts) ==
    [partial |-> partial, content |-> hasContent, parts |-> parts]

\* event.content?.parts?.some(p => p.functionResponse)
HasFunctionResponse(e) ==
    e.content /\ \E i \in 1..Len(e.parts) : e.parts[i].kind = "functionResponse"

\* mutant of SkipEvent: only an explicit partial === false is skipped
SkipEventOnlyFalse(e, full) ==
    ~HasFunctionResponse(e) /\ e.partial = "false"

\* the condition of the `continue` at the head of the for-await body
SkipEvent(e, full) ==
    /\ ~HasFunctionResponse(e)
    /\ \/ e.partial = "false"
       \/ e.content /\ e.partial # "true" /\ Len(full) > 0

\* while ((match = citationPattern.exec(responseText)) !== null) { try ... }
CitationFrames(r) ==
    LET m == MatchesFrom("citation", r, 1)
        json(k) == SubSeq(r, m[k] + 1, MatchEnd("citation", r, m[k]) - 1)
        ok == {k \in 1..Len(m) : JsonParses(json(k))}
        RECURSIVE Out(_)
        Out(k) == IF k > Len(m) THEN <<>>
                  ELSE (IF k \in ok
                        THEN <<Frame("citation", [kind |-> "source", title |-> JsonTitle(json(k)), url |-> <<>>])>>
                        ELSE <<>>) \o Out(k + 1)
    IN  Out(1)

\* filename.replace(/_/g, ' ').replace(/\.(pdf|md)$/, '')
DownloadTitle(f) ==
    LET u == [i \in 1..Len(f) |-> IF f[i] = "_" THEN " " ELSE f[i]]
    IN  IF Len(u) > 0 /\ u[Len(u)] \in {".pdf", ".md"} THEN SubSeq(u, 1, Len(u) - 1) ELSE u

\* while ((match = downloadPattern.exec(responseText)) !== null) ...
DownloadFrames(r) ==
    LET m == MatchesFrom("download", r, 1)
        file(k) == SubSeq(r, m[k] + 1, MatchEnd("download", r, m[k]) - 1)
    IN  [k \in 1..Len(m) |->
            Frame("citation", [kind |-> "generated", title |-> DownloadTitle(file(k)), url |-> file(k)])]

\* while ((match = linkPattern.exec(responseText)) !== null) ...
LinkFrames(r) ==
    LET m == MatchesFrom("link", r, 1)
    IN  [k \in 1..Len(m) |->
            Frame("citation", [kind |-> "generated",
                               title |-> SubSeq(r, m[k] + 1, LinkBar1(r, m[k]) - 1),
                               url |-> SubSeq(r, LinkBar1(r, m[k]) + 1, LinkBar2(r, m[k]) - 1)])]

\* mutant of PartFrames: each text fragment is spoken as soon as it is sent
PartFramesSpeakEarly(part) ==
    CASE part.kind = "functionCall" -> <<Frame("tool_call", part.name)>>
      [] part.kind = "functionResponse" ->
            CitationFrames(part.text) \o DownloadFrames(part.text) \o LinkFrames(part.text)
      [] part.kind = "text" ->
            IF part.text # <<>> /\ NonBlank(CleanText(part.text))
            THEN <<Frame("content", CleanText(part.text)), Frame("audio", 0)>> ELSE <<>>

\* the frames one part sends, in order (the body of `for (const part of ...)`)
PartFrames(part) ==
    CASE part.kind = "functionCall" -> <<Frame("tool_call", part.name)>>
      [] part.kind = "functionResponse" ->
            CitationFrames(part.text) \o DownloadFrames(part.text) \o LinkFrames(part.text)
      [] part.kind = "text" ->
            IF part.text # <<>> /\ NonBlank(CleanText(part.text))
            THEN <<Frame("content", CleanText(part.text))>> ELSE <<>>

\* what one part adds to fullTextResponse
PartText(part) ==
    IF part.kind = "text" /\ part.text # <<>> /\ NonBlank(CleanText(part.text))
    THEN part.text ELSE <<>>

\* one pass of the for-await body: the frames sent and the text accumulated
EventFrames(e, full) ==
    IF SkipEvent(e, full) \/ ~e.content THEN <<>>
    ELSE Flatten([i \in 1..Len(e.parts) |-> PartFrames(e.parts[i])])

EventText(e, full) ==
    IF SkipEvent(e, full) \/ ~e.content THEN <<>>
    ELSE Flatten([i \in 1..Len(e.parts) |-> PartText(e.parts[i])])

----------------------------------------------------------------------------
(* Audio generation: the sentence split and stripMarkdown                  *)

Terminators == {".", "!", "?"}

\* a match of /(?<=[.!?])\s+/ starts at i
SeparatorAt(s, i) == i > 1 /\ s[i - 1] \in Terminators /\ s[i] \in Whitespace

\* the last index of the whitespace run that starts at i
RunEnd(s, i) == SetMin({k \in i..Len(s) : k = Len(s) \/ s[k + 1] \notin Whitespace})

\* fullTextResponse.split(/(?<=[.!?])\s+/)
RECURSIVE SplitFrom(_, _)
SplitFrom(s, from) ==
    LET M == {i \in from..Len(s) : SeparatorAt(s, i)}
    IN  IF M = {} THEN <<SubSeq(s, from, Len(s))>>
        ELSE <<SubSeq(s, from, SetMin(M) - 1)>> \o SplitFrom(s, RunEnd(s, SetMin(M)) + 1)

Trim(s) ==
    LET N == {i \in 1..Len(s) : s[i] \notin Whitespace}
    IN  IF N = {} THEN <<>>
        ELSE SubSeq(s, SetMin(N), CHOOSE x \in N : \A y \in N : y <= x)

\* /\[CITATION:.*?\]/ of stripMarkdown: up to the first "]"
CitationTtsEnd(s, i) ==
    IF s[i] = "[C:" THEN FirstAt(s, i + 1, "]") ELSE 0

RECURSIVE StripTts(_, _)
StripTts(s, from) ==
    LET M == {i \in from..Len(s) : CitationTtsEnd(s, i) # 0}
    IN  IF M = {} THEN SubSeq(s, from, Len(s))
        ELSE SubSeq(s, from, SetMin(M) - 1) \o StripTts(s, CitationTtsEnd(s, SetMin(M)) + 1)

\* stripMarkdown(text): the marker removals and the final trim (the token
\* alphabet holds no markdown character)
StripMarkdown(t) ==
    Trim(StripFrom("linkstrip", StripFrom("download", StripTts(t, 1), 1), 1))

\* the sentences the audio loop hands to generateSpeech, in order
AudioPlan(full) ==
    LET sentences == SplitFrom(full, 1)
        spoken == SelectSeq(sentences, NonBlank)
        clean == [k \in 1..Len(spoken) |-> StripMarkdown(spoken[k])]
        NonEmpty(c) == c # <<>>
    IN  IF NonBlank(full) THEN SelectSeq(clean, NonEmpty) ELSE <<>>

----------------------------------------------------------------------------
(* Inputs of a turn *)

CitA == <<"[C:", "{", "T", "q", "a", "q", "}", "]">>

Texts == {<<"a">>, <<" ">>, <<"[D:", "a", "]">>, <<"a", ".", " ", "b">>}

AgentEvents ==
    {AgentEvent("true", TRUE, <<TextPart(t)>>) : t \in Texts}
    \cup {AgentEvent(p, TRUE, <<TextPart(<<"a">>)>>) : p \in {"false", "undefined"}}
    \cup {AgentEvent(p, TRUE, <<CallPart("web_search")>>) : p \in {"false", "undefined"}}
    \cup {AgentEvent(p, TRUE, <<RespPart("web_search", <<"a">> \o CitA)>>) : p \in {"false", "undefined"}}
    \cup {AgentEvent("undefined", FALSE, <<>>)}

RECURSIVE SeqsUpTo(_, _)
SeqsUpTo(S, n) ==
    IF n = 0 THEN {<<>>}
    ELSE SeqsUpTo(S, n - 1) \cup {Append(q, x) : q \in SeqsUpTo(S, n - 1), x \in S}

\* a streamed answer: partial text events, then the final event that repeats
\* the assembled text
StreamedScripts ==
    {[k \in 1..Len(ts) |-> AgentEvent("true", TRUE, <<TextPart(ts[k])>>)]
        \o <<AgentEvent(p, TRUE, <<TextPart(Flatten(ts))>>)>> :
        ts \in SeqsUpTo(Texts, MaxPartials) \ {<<>>}, p \in {"false", "undefined"}}

Scripts == SeqsUpTo(AgentEvents, MaxEvents) \cup StreamedScripts

\* The result text of a tool is built from segments: free text, citation
\* markers whose JSON is well formed (ok...) and markers whose JSON is not.
Segment(name) ==
    CASE name = "text"      -> <<"a">>
      [] name = "okA"       -> CitA
      [] name = "okB"       -> <<"[C:", "{", "T", "q", "b", "q", "}", "]">>
      [] name = "okNoTitle" -> <<"[C:", "{", "}", "]">>
      \* {"title":"a}]b"}: the title holds the two characters }]
      [] name = "okBracket" -> <<"[C:", "{", "T", "q", "a", "}", "]", "b", "q", "}", "]">>
      \* {"title":"a} : the string is not closed
      [] name = "badString" -> <<"[C:", "{", "T", "q", "a", "}", "]">>
      \* {"title":"a"] : the closing brace is missing
      [] name = "badBrace"  -> <<"[C:", "{", "T", "q", "a", "q", "]">>

WellFormed == {"okA", "okB", "okNoTitle", "okBracket"}
SegmentNames == WellFormed \cup {"text", "badString", "badBrace"}

\* the title a well-formed marker carries (citationData.title || 'Source')
SegmentTitle(name) ==
    CASE name = "okA"       -> <<"a">>
      [] name = "okB"       -> <<"b">>
      [] name = "okNoTitle" -> <<"Source">>
      [] name = "okBracket" -> <<"a", "}", "]", "b">>

ResultText(segs) == Flatten([k \in 1..Len(segs) |-> Segment(segs[k])])

\* a turn whose agent yields one tool response built from segments
CodecRequests ==
    {[bodyValid |-> TRUE, session_id |-> "s1", voice_id |-> FALSE, codec |-> TRUE,
      case_context |-> FALSE,
      script |-> <<AgentEvent(p, TRUE, <<RespPart("web_search", ResultText(segs))>>)>>,
      segs |-> segs] :
        p \in {"false", "undefined"}, segs \in SeqsUpTo(SegmentNames, MaxSegs)}

\* the request body and, as the turn's input, what the agent will yield
Requests ==
    {[bodyValid |-> TRUE, session_id |-> sid, voice_id |-> v, codec |-> FALSE,
      case_context |-> FALSE, script |-> sc, segs |-> <<>>] :
        sid \in {"", "s1"}, v \in BOOLEAN, sc \in Scripts}
    \cup {[bodyValid |-> FALSE, session_id |-> "", voice_id |-> FALSE, codec |-> FALSE,
           case_context |-> FALSE, script |-> <<>>, segs |-> <<>>]}
    \cup CodecRequests

InitChat ==
    /\ request \in Requests
    /\ pc = "parse"
    /\ events = <<>>
    /\ consumed = 0
    /\ fullTextResponse = <<>>
    /\ sentenceIdx = 0
    /\ synthesized = <<>>
    /\ cancelled = FALSE
    /\ escaped = FALSE
    /\ emitted = <<>>
    /\ sessions = [id \in {} |-> 0]
    /\ history = <<>>
    /\ turnNo = 1

----------------------------------------------------------------------------
(* Steps of the start() handler.  An await is the only place where another *)
(* task (the client's disconnect) can run.                                 *)

\* const currentSessionId = session_id || crypto.randomUUID()
CurrentSessionId == IF request.session_id = "" THEN Uuid(turnNo) ELSE request.session_id

\* session.events.length of the session getSession / createSession returned
PriorEvents ==
    IF CurrentSessionId \in DOMAIN sessions THEN sessions[CurrentSessionId] ELSE 0

\* mutant of Prefixed: the prefix goes with every request that has case_context
PrefixedWheneverContext(case_context, prior) == case_context

\* if (case_context && (!session.events || session.events.length === 0))
\*     userMessage = contextPrefix + message
Prefixed(case_context, prior) == case_context /\ prior = 0

\* the runner takes a step: its first step appends the user's message to the
\* session, and an event it yields is appended unless it is partial
Stepped(appended) ==
    [sessions EXCEPT ![CurrentSessionId] =
        @ + (IF consumed = 0 THEN 1 ELSE 0) + (IF appended THEN 1 ELSE 0)]

\* mutant of Fail: the catch block closes the stream without an error frame
FailSilent ==
    /\ pc' = "closed"
    /\ events' = events
    /\ escaped' = escaped

\* catch (error) { sendEvent({type:'error'}) } finally { controller.close() }
\* on a cancelled stream enqueue and close both throw
Fail ==
    /\ pc' = "closed"
    /\ IF cancelled
       THEN events' = events /\ escaped' = TRUE
       ELSE events' = Append(events, Frame("error", "")) /\ escaped' = escaped

\* sendEvent({ type: 'done' }), then the finally block
Finish(sent) ==
    IF cancelled
    THEN pc' = "closed" /\ events' = events /\ escaped' = TRUE
    ELSE pc' = "closed" /\ events' = (events \o sent) \o <<Frame("done", "")>> /\ escaped' = escaped

\* await request.json() resolves; sendEvent({type:'session', ...})
ParseRequest ==
    /\ pc = "parse"
    /\ request.bodyValid
    /\ IF cancelled THEN Fail
       ELSE /\ pc' = "session"
            /\ events' = Append(events, Frame("session", CurrentSessionId))
            /\ escaped' = escaped
    /\ UNCHANGED <<notChat, request, consumed, fullTextResponse, sentenceIdx, synthesized, cancelled, emitted,
                   sessionVars>>

\* await request.json() rejects
ParseThrows ==
    /\ pc = "parse"
    /\ ~request.bodyValid
    /\ Fail
    /\ UNCHANGED <<notChat, request, consumed, fullTextResponse, sentenceIdx, synthesized, cancelled, emitted,
                   sessionVars>>

\* getSession / createSession resolve; setSessionContext(currentSessionId);
\* the runner is created
SessionReady ==
    /\ pc = "session"
    /\ pc' = "run"
    /\ currentSessionId' = CurrentSessionId
    /\ sessions' = IF CurrentSessionId \in DOMAIN sessions THEN sessions
                   ELSE [id \in DOMAIN sessions \cup {CurrentSessionId} |->
                            IF id = CurrentSessionId THEN 0 ELSE sessions[id]]
    /\ history' = Append(history,
                         [sessionId |-> CurrentSessionId,
                          case_context |-> request.case_context,
                          prior |-> PriorEvents,
                          prefixed |-> Prefixed(request.case_context, PriorEvents)])
    /\ UNCHANGED <<turnNo, store, uploads, lastCall, audioVars, pageVars, extraVars>>
    /\ UNCHANGED <<request, events, consumed, fullTextResponse, sentenceIdx, synthesized,
                   cancelled, escaped, emitted>>

\* getSession or createSession rejects
SessionThrows ==
    /\ pc = "session"
    /\ Fail
    /\ UNCHANGED <<notChat, request, consumed, fullTextResponse, sentenceIdx, synthesized, cancelled, emitted,
                   sessionVars>>

\* the generator yields its next event: one pass of the for-await body
AgentYield ==
    /\ pc = "run"
    /\ consumed < Len(request.script)
    /\ LET e == request.script[consumed + 1]
           sent == EventFrames(e, fullTextResponse)
       IN  IF cancelled /\ sent # <<>>
           THEN Fail /\ UNCHANGED <<consumed, fullTextResponse, emitted>>
           ELSE /\ events' = events \o sent
                /\ consumed' = consumed + 1
                /\ fullTextResponse' = fullTextResponse \o EventText(e, fullTextResponse)
                /\ emitted' = Append(emitted, sent)
                /\ UNCHANGED <<pc, escaped>>
    /\ sessions' = Stepped(consumed < Len(request.script)
                            /\ request.script[consumed + 1].partial # "true")
    /\ UNCHANGED <<notChat, request, sentenceIdx, synthesized, cancelled, history, turnNo>>

\* the generator throws
AgentThrows ==
    /\ pc = "run"
    /\ Fail
    /\ UNCHANGED <<notChat, request, consumed, fullTextResponse, sentenceIdx, synthesized, cancelled, emitted,
                   history, turnNo>>
    /\ sessions' = Stepped(FALSE)

\* the generator is exhausted: start the audio loop, or finish
AgentEnds ==
    /\ pc = "run"
    /\ consumed = Len(request.script)
    /\ IF request.voice_id /\ AudioPlan(fullTextResponse) # <<>>
       THEN pc' = "audio" /\ sentenceIdx' = 1 /\ UNCHANGED <<events, escaped>>
       ELSE Finish(<<>>) /\ UNCHANGED sentenceIdx
    /\ synthesized' = synthesized
    /\ UNCHANGED <<notChat, request, consumed, fullTextResponse, cancelled, emitted, history, turnNo>>
    /\ sessions' = Stepped(FALSE)

\* mutant of Synthesize: a sentence whose synthesis returns null fails the turn
SynthesizeOrFail(ok) ==
    /\ pc = "audio"
    /\ synthesized' = Append(synthesized, ok)
    /\ LET sent == IF ok THEN <<Frame("audio", sentenceIdx)>> ELSE <<>>
       IN  IF ~ok
           THEN Fail /\ UNCHANGED sentenceIdx
           ELSE IF sentenceIdx = Len(AudioPlan(fullTextResponse))
           THEN Finish(sent) /\ UNCHANGED sentenceIdx
           ELSE IF cancelled /\ ok
           THEN Fail /\ UNCHANGED sentenceIdx
           ELSE /\ events' = events \o sent
                /\ sentenceIdx' = sentenceIdx + 1
                /\ UNCHANGED <<pc, escaped>>
    /\ UNCHANGED <<notChat, request, consumed, fullTextResponse, cancelled, emitted, sessionVars>>

\* await generateSpeech(cleanSentence, voice_id) resolves with audio or null
Synthesize(ok) ==
    /\ pc = "audio"
    /\ synthesized' = Append(synthesized, ok)
    /\ LET sent == IF ok THEN <<Frame("audio", sentenceIdx)>> ELSE <<>>
       IN  IF sentenceIdx = Len(AudioPlan(fullTextResponse))
           THEN Finish(sent) /\ UNCHANGED sentenceIdx
           ELSE IF cancelled /\ ok
           THEN Fail /\ UNCHANGED sentenceIdx
           ELSE /\ events' = events \o sent
                /\ sentenceIdx' = sentenceIdx + 1
                /\ UNCHANGED <<pc, escaped>>
    /\ UNCHANGED <<notChat, request, consumed, fullTextResponse, cancelled, emitted, sessionVars>>

SynthesizeSentence == \E ok \in BOOLEAN : Synthesize(ok)

\* the client goes away: the response body stream is cancelled
ClientDisconnect ==
    /\ pc # "closed"
    /\ ~cancelled
    /\ cancelled' = TRUE
    /\ UNCHANGED <<notChat, sessionVars, pc, request, events, consumed, fullTextResponse, sentenceIdx, synthesized,
                   escaped, emitted>>

NextChat ==
    \/ ParseRequest
    \/ ParseThrows
    \/ SessionReady
    \/ SessionThrows
    \/ AgentYield
    \/ AgentThrows
    \/ AgentEnds
    \/ SynthesizeSentence
    \/ ClientDisconnect

MaxServerTurns == 2

\* the requests of a conversation: with or without case_context, for a new
\* session, for the session of the first turn, or for another session id
TurnRequests ==
    {[bodyValid |-> TRUE, session_id |-> sid, voice_id |-> v, codec |-> FALSE,
      case_context |-> c, script |-> sc, segs |-> <<>>] :
        sid \in {"", "s1", Uuid(1)}, c \in BOOLEAN, v \in BOOLEAN,
        sc \in {<<>>, <<AgentEvent("true", TRUE, <<TextPart(<<"a">>)>>)>>,
                <<AgentEvent("false", TRUE, <<TextPart(<<"a">>)>>)>>}}
    \cup {[bodyValid |-> FALSE, session_id |-> "", voice_id |-> FALSE, codec |-> FALSE,
           case_context |-> FALSE, script |-> <<>>, segs |-> <<>>]}

InitSession ==
    /\ request \in TurnRequests
    /\ pc = "parse"
    /\ events = <<>>
    /\ consumed = 0
    /\ fullTextResponse = <<>>
    /\ sentenceIdx = 0
    /\ synthesized = <<>>
    /\ cancelled = FALSE
    /\ escaped = FALSE
    /\ emitted = <<>>
    /\ sessions = [id \in {} |-> 0]
    /\ history = <<>>
    /\ turnNo = 1

\* the stream of a turn is closed and the next POST arrives
NextRequest ==
    /\ pc = "closed"
    /\ turnNo < MaxServerTurns
    /\ turnNo' = turnNo + 1
    /\ request' \in TurnRequests
    /\ pc' = "parse"
    /\ events' = <<>>
    /\ consumed' = 0
    /\ fullTextResponse' = <<>>
    /\ sentenceIdx' = 0
    /\ synthesized' = <<>>
    /\ cancelled' = FALSE
    /\ escaped' = FALSE
    /\ emitted' = <<>>
    /\ UNCHANGED <<sessions, history, notChat>>

NextSession ==
    \/ NextChat
    \/ NextRequest

----------------------------------------------------------------------------
(* Document scope store.  The persisted DocumentStore is an object          *)
(* { sessionId: { docId: DocumentItem } }; a session's documents are kept   *)
(* as the sequence of its entries in key (insertion) order.  The store is   *)
(* reachable: loadStoreAsync and saveStoreAsync succeed.                    *)

MaxUploads == 1

SessionIds == {"staging", "s1", "global"}
FileNames == {"a.txt"}
GeneratedNames == {"memo.pdf"}
Contents == {"x", "y"}

DocIds == {Uuid(n) : n \in 1..MaxUploads} \cup GeneratedNames

EmptyStore == [s \in {} |-> <<>>]

\* store[sessionId][id] = { name, content, type }
DocumentItem(id, name, content, type) ==
    [id |-> id, name |-> name, content |-> content, type |-> type]

\* Object.keys(sessionDocs)
Keys(docs) == [i \in 1..Len(docs) |-> docs[i].id]

\* sessionDocs[id] is set
Has(docs, id) == \E i \in 1..Len(docs) : docs[i].id = id

\* sessionDocs[id]
Get(docs, id) == docs[CHOOSE i \in 1..Len(docs) : docs[i].id = id]

\* sessionDocs[id] = item: an existing key keeps its place
Put(docs, id, item) ==
    IF Has(docs, id)
    THEN [i \in 1..Len(docs) |-> IF docs[i].id = id THEN item ELSE docs[i]]
    ELSE Append(docs, item)

\* delete sessionDocs[id]
Delete(docs, id) == SelectSeq(docs, LAMBDA d : d.id # id)

\* store[sid] || {}
SessionDocs(st, sid) == IF sid \in DOMAIN st THEN st[sid] ELSE <<>>

\* delete store[sid]
DeleteSession(st, sid) == [s \in DOMAIN st \ {sid} |-> st[s]]

\* store[sid] = docs
PutSession(st, sid, docs) ==
    [s \in DOMAIN st \cup {sid} |-> IF s = sid THEN docs ELSE st[s]]

\* addDocument: load, create the session entry if missing, set, save
AddDocumentTo(st, sessionId, id, name, content, type) ==
    PutSession(st, sessionId,
               Put(SessionDocs(st, sessionId), id, DocumentItem(id, name, content, type)))

\* mutant of GetDocumentNames: the session context wins over the argument
GetDocumentNamesOfContext(st, sessionId) ==
    LET sid == IF currentSessionId # "" THEN currentSessionId ELSE sessionId
        docs == SessionDocs(st, sid)
    IN  IF sid = "" THEN <<>> ELSE [i \in 1..Len(docs) |-> docs[i].name]

\* getDocumentNames(sessionId?): sid = sessionId || currentSessionId
GetDocumentNames(st, sessionId) ==
    LET sid == IF sessionId # "" THEN sessionId ELSE currentSessionId
        docs == SessionDocs(st, sid)
    IN  IF sid = "" THEN <<>> ELSE [i \in 1..Len(docs) |-> docs[i].name]

\* clearSessionDocuments(sessionId)
ClearSessionDocumentsOf(st, sessionId) ==
    IF sessionId \in DOMAIN st THEN DeleteSession(st, sessionId) ELSE st

\* for (const docId of idsToMove) { if (sourceSession[docId]) { ... } }
\* src is sourceSession, dst is store[to_session]; when aliased they are
\* one and the same object
RECURSIVE MoveLoop(_, _, _, _)
MoveLoop(src, dst, aliased, ids) ==
    IF ids = <<>> THEN <<src, dst>>
    ELSE LET docId == Head(ids)
         IN  IF ~Has(src, docId) THEN MoveLoop(src, dst, aliased, Tail(ids))
             ELSE IF aliased
             THEN LET obj == Delete(Put(src, docId, Get(src, docId)), docId)
                  IN  MoveLoop(obj, obj, aliased, Tail(ids))
             ELSE MoveLoop(Delete(src, docId), Put(dst, docId, Get(src, docId)),
                           aliased, Tail(ids))

\* the move-documents route after its 400 check; all = document_ids is absent
MoveStore(st, from, to, all, ids) ==
    LET sourceSession == SessionDocs(st, from)
        aliased == from \in DOMAIN st /\ from = to
        st1 == IF to \in DOMAIN st THEN st ELSE PutSession(st, to, <<>>)
        idsToMove == IF all THEN Keys(sourceSession) ELSE ids
        r == MoveLoop(sourceSession, st1[to], aliased, idsToMove)
        st2 == PutSession(PutSession(st1, to, r[2]), from, r[1])
    IN  IF r[1] = <<>> THEN DeleteSession(st2, from) ELSE st2

\* what the ghost records of one operation: its name, whether it succeeded
\* and, for getDocumentNames, the argument and the names returned
Call(op, ok, sessionId, result) ==
    [op |-> op, ok |-> ok, sessionId |-> sessionId, result |-> result]

InitStore ==
    /\ store = EmptyStore
    /\ currentSessionId = ""
    /\ uploads = 0
    /\ lastCall = Call("none", TRUE, "", <<>>)

\* the upload route: fileId = crypto.randomUUID(),
\* addDocument(sessionId || 'global', fileId, file.name, textContent, file.type)
Upload(session_id, name) ==
    /\ uploads < MaxUploads
    /\ LET effectiveSessionId == IF session_id = "" THEN "global" ELSE session_id
           fileId == Uuid(uploads + 1)
       IN  /\ store' = AddDocumentTo(store, effectiveSessionId, fileId, name, "x", "upload")
           /\ lastCall' = Call("addDocument", TRUE, "", <<>>)
    /\ uploads' = uploads + 1
    /\ UNCHANGED <<notStore, currentSessionId>>

UploadFile ==
    \E session_id \in SessionIds \cup {""}, name \in FileNames :
        Upload(session_id, name)

\* setSessionContext(sessionId), called by the chat route before a run
SetSessionContext ==
    \E sessionId \in SessionIds :
        /\ currentSessionId' = sessionId
        /\ UNCHANGED <<notStore, store, uploads, lastCall>>

\* generate_document mirrors its text into the store:
\* addDocument(getSessionContext() || 'global', filename, filename, content, 'generated')
GenerateDocument ==
    \E filename \in GeneratedNames, content \in Contents :
        LET sessionId == IF currentSessionId # "" THEN currentSessionId ELSE "global"
        IN  /\ store' = AddDocumentTo(store, sessionId, filename, filename, content, "generated")
            /\ lastCall' = Call("addDocument", TRUE, "", <<>>)
            /\ UNCHANGED <<notStore, currentSessionId, uploads>>

\* POST /api/move-documents { from_session, to_session, document_ids? }
Move(from_session, to_session, all, document_ids) ==
    /\ IF from_session = "" \/ to_session = ""
       THEN /\ store' = store
            /\ lastCall' = Call("move", FALSE, "", <<>>)
       ELSE /\ store' = MoveStore(store, from_session, to_session, all, document_ids)
            /\ lastCall' = Call("move", TRUE, "", <<>>)
    /\ UNCHANGED <<notStore, currentSessionId, uploads>>

\* the bodies a client sends: document_ids absent, or an array of ids
MoveDocuments ==
    \E from_session \in SessionIds \cup {""}, to_session \in SessionIds \cup {""} :
        \/ Move(from_session, to_session, TRUE, <<>>)
        \/ \E docId \in DocIds : Move(from_session, to_session, FALSE, <<docId>>)
        \/ Move(from_session, to_session, FALSE, <<>>)

\* clearSessionDocuments(sessionId)
ClearSessionDocuments ==
    \E sessionId \in SessionIds :
        /\ store' = ClearSessionDocumentsOf(store, sessionId)
        /\ lastCall' = Call("clear", TRUE, "", <<>>)
        /\ UNCHANGED <<notStore, currentSessionId, uploads>>

\* await getDocumentNames(sessionId)
ListNames ==
    \E sessionId \in SessionIds \cup {""} :
        /\ lastCall' = Call("getDocumentNames", TRUE, sessionId,
                            GetDocumentNames(store, sessionId))
        /\ UNCHANGED <<notStore, store, currentSessionId, uploads>>

NextStore ==
    \/ UploadFile
    \/ SetSessionContext
    \/ GenerateDocument
    \/ MoveDocuments
    \/ ClearSessionDocuments
    \/ ListNames

----------------------------------------------------------------------------
(* Audio queue hook.  Chunks are numbered in the order of the addToQueue    *)
(* calls.  The AudioContext works: createBufferSource and start succeed.    *)

MaxChunks == 3

\* playNext(), run on the queue q, the started sources snd, the current
\* source src and the pending state tm of the grace timer
PlayNext(q, snd, src, tm) ==
    IF q = <<>>
    THEN /\ isProcessing' = FALSE
         /\ playbackEndTimeout' = TRUE
         /\ queue' = q
         /\ sounding' = snd
         /\ sourceRef' = src
         /\ isPlaying' = isPlaying
         /\ played' = played
    ELSE /\ isProcessing' = TRUE
         /\ isPlaying' = TRUE
         /\ queue' = Tail(q)
         /\ sourceRef' = Head(q)
         /\ sounding' = snd \cup {Head(q)}
         /\ playbackEndTimeout' = tm
         /\ played' = Append(played, Head(q))

\* addToQueue(base64Data) up to its await
AddToQueue ==
    /\ isReceiving' = TRUE
    /\ playbackEndTimeout' = FALSE
    /\ isPlaying' = TRUE
    /\ decoding' = decoding \cup {added + 1}
    /\ added' = added + 1
    /\ completeSince' = FALSE
    /\ UNCHANGED <<queue, isProcessing, sourceRef, sounding, stopped, played, halted, stoppedAt>>

\* markStreamComplete()
MarkStreamComplete ==
    /\ isReceiving' = FALSE
    /\ completeSince' = TRUE
    /\ UNCHANGED <<isPlaying, queue, isProcessing, playbackEndTimeout, sourceRef,
                   decoding, sounding, added, stopped, played, halted, stoppedAt>>

\* stop(): a stopped source still fires onended
Stop ==
    /\ queue' = <<>>
    /\ isPlaying' = FALSE
    /\ isProcessing' = FALSE
    /\ isReceiving' = FALSE
    /\ playbackEndTimeout' = FALSE
    /\ sourceRef' = 0
    /\ stopped' = TRUE
    /\ halted' = IF sourceRef # 0 THEN halted \cup {sourceRef} ELSE halted
    /\ stoppedAt' = added
    /\ UNCHANGED <<decoding, sounding, added, completeSince, played>>

\* the callback of playbackEndTimeoutRef fires
PlaybackEndTimeout ==
    /\ playbackEndTimeout
    /\ IF queue = <<>> /\ ~isReceiving
       THEN /\ isPlaying' = FALSE
            /\ playbackEndTimeout' = FALSE
            /\ UNCHANGED <<queue, isProcessing, sourceRef, sounding, played>>
       ELSE IF queue # <<>>
       THEN PlayNext(queue, sounding, sourceRef, FALSE)
       ELSE /\ playbackEndTimeout' = FALSE
            /\ UNCHANGED <<isPlaying, queue, isProcessing, sourceRef, sounding, played>>
    /\ UNCHANGED <<isReceiving, decoding, added, stopped, completeSince, halted, stoppedAt,
                   notAudio>>

\* await ctx.decodeAudioData resolves for chunk c: push, playNext if idle
Decoded(c) ==
    /\ c \in decoding
    /\ decoding' = decoding \ {c}
    /\ IF ~isProcessing
       THEN PlayNext(Append(queue, c), sounding, sourceRef, playbackEndTimeout)
       ELSE /\ queue' = Append(queue, c)
            /\ UNCHANGED <<isPlaying, isProcessing, playbackEndTimeout, sourceRef, sounding,
                           played>>
    /\ UNCHANGED <<isReceiving, added, stopped, completeSince, halted, stoppedAt, notAudio>>

DecodeDone == \E c \in decoding : Decoded(c)

\* atob or decodeAudioData throws for chunk c: the chunk is dropped
DecodeFails ==
    \E c \in decoding :
        /\ decoding' = decoding \ {c}
        /\ UNCHANGED <<isPlaying, queue, isProcessing, isReceiving, playbackEndTimeout,
                       sourceRef, sounding, added, stopped, completeSince, played, halted,
                       stoppedAt, notAudio>>

\* source.onended of chunk c: sourceRef.current = null; playNext()
SourceEnded ==
    \E c \in sounding :
        /\ PlayNext(queue, sounding \ {c}, 0, playbackEndTimeout)
        /\ halted' = halted \ {c}
        /\ UNCHANGED <<isReceiving, decoding, added, stopped, completeSince, stoppedAt, notAudio>>

\* the calls of a component that uses the hook
CallAddToQueue == added < MaxChunks /\ AddToQueue /\ UNCHANGED notAudio

CallMarkStreamComplete == MarkStreamComplete /\ UNCHANGED notAudio

CallStop == Stop /\ UNCHANGED notAudio

InitAudio ==
    /\ isPlaying = FALSE
    /\ queue = <<>>
    /\ isProcessing = FALSE
    /\ isReceiving = FALSE
    /\ playbackEndTimeout = FALSE
    /\ sourceRef = 0
    /\ decoding = {}
    /\ sounding = {}
    /\ added = 0
    /\ stopped = FALSE
    /\ completeSince = FALSE
    /\ played = <<>>
    /\ halted = {}
    /\ stoppedAt = 0

NextAudio ==
    \/ CallAddToQueue
    \/ CallMarkStreamComplete
    \/ CallStop
    \/ DecodeDone
    \/ DecodeFails
    \/ SourceEnded
    \/ PlaybackEndTimeout

----------------------------------------------------------------------------
(* The page.  A click is a discrete event: React renders and runs the       *)
(* effects before the next event is handled.  A state update made anywhere  *)
(* else (a speech recognition event, the stream reader, a timer, the audio  *)
(* queue) is rendered by a later task, Commit; other events can be handled  *)
(* before it.  Content, tool_call and error frames only touch messages,     *)
(* which are not part of this state.                                        *)

MaxTurns == 2
MaxAudioFrames == 1

\* useState("UgBBYS2sOqTuMpoF3BR0"): a voice is selected at first
DefaultVoice == TRUE

\* the state values a render started now would see, given isAiSpeaking
Current(ai) ==
    [ai |-> ai, audio |-> isPlaying, mode |-> inputMode, session |-> sessionState,
     voice |-> selectedVoiceId, sid |-> clientSessionId]

\* recognitionRef.current.start(): throws unless the recognition is off
StartListening(r) == IF r = "off" THEN "on" ELSE r

\* recognitionRef.current.stop(): a final result may still be delivered
StopListening(r) == IF r = "on" THEN "stopping" ELSE r

\* render with the values cur and run the effects whose dependencies changed:
\* the audio sync effect, the shouldAcceptSpeechRef effect, the mic effect
RunEffects(cur, streamActive) ==
    LET sync == cur.audio # rendered.audio \/ cur.voice # rendered.voice
        gate == cur.ai # rendered.ai \/ cur.audio # rendered.audio
        mic  == cur.mode # rendered.mode \/ cur.session # rendered.session
                    \/ cur.ai # rendered.ai
        listen == cur.mode = "voice" /\ cur.session = "active"
    IN  /\ isAiSpeaking' = IF sync /\ cur.voice /\ cur.audio THEN TRUE
                           ELSE IF sync /\ cur.voice /\ ~streamActive THEN FALSE
                           ELSE cur.ai
        /\ shouldAcceptSpeechRef' = IF gate THEN ~cur.ai /\ ~cur.audio
                                    ELSE shouldAcceptSpeechRef
        /\ IF ~mic
           THEN UNCHANGED <<wasAiSpeakingRef, micCooldown, recognition>>
           ELSE IF cur.ai
           THEN /\ wasAiSpeakingRef' = TRUE
                /\ micCooldown' = "off"
                /\ recognition' = StopListening(recognition)
           ELSE IF wasAiSpeakingRef
           THEN /\ wasAiSpeakingRef' = FALSE
                /\ micCooldown' = IF listen THEN "start" ELSE "nothing"
                /\ recognition' = recognition
           ELSE /\ wasAiSpeakingRef' = wasAiSpeakingRef
                /\ micCooldown' = "off"
                /\ recognition' = IF listen THEN StartListening(recognition)
                                  ELSE StopListening(recognition)
        /\ rendered' = cur

\* a turn of handleSendMessage: where it is, the selectedVoiceId and the
\* clientSessionId of its closure, whether its session frame has been read and,
\* as a ghost, the session id the page had been told when it was submitted
Turn(stage, voice, session_id) ==
    [stage |-> stage, voice |-> voice, session_id |-> session_id, session |-> FALSE,
     known |-> clientSessionId]

\* what the ghost records of a final transcript
Transcript(delivered, aiSpeaking, accepted, voiceMode, active) ==
    [delivered |-> delivered, aiSpeaking |-> aiSpeaking, accepted |-> accepted,
     voiceMode |-> voiceMode, active |-> active]

InitPage ==
    /\ isAiSpeaking = FALSE
    /\ inputMode = "text"
    /\ sessionState = "idle"
    /\ selectedVoiceId = DefaultVoice
    /\ caseContext = FALSE
    /\ clientSessionId = ""
    /\ isStreamActiveRef = FALSE
    /\ shouldAcceptSpeechRef = TRUE
    /\ wasAiSpeakingRef = FALSE
    /\ micCooldown = "off"
    /\ recognition = "off"
    /\ rendered = [ai |-> FALSE, audio |-> FALSE, mode |-> "text", session |-> "idle",
                   voice |-> DefaultVoice, sid |-> ""]
    /\ turns = <<>>
    /\ lastTranscript = Transcript(FALSE, FALSE, FALSE, FALSE, FALSE)

\* handleCaseSetupComplete
CaseSetupComplete ==
    /\ ~caseContext
    /\ caseContext' = TRUE
    /\ sessionState' = "active"
    /\ RunEffects([Current(isAiSpeaking) EXCEPT !.session = "active"], isStreamActiveRef)
    /\ UNCHANGED <<inputMode, selectedVoiceId, clientSessionId, isStreamActiveRef, turns, lastTranscript,
                   audioVars, notBrowser>>

\* handleNewSession
NewSession ==
    /\ caseContext
    /\ caseContext' = FALSE
    /\ clientSessionId' = ""
    /\ sessionState' = "idle"
    /\ RunEffects([Current(isAiSpeaking) EXCEPT !.session = "idle", !.sid = ""],
                  isStreamActiveRef)
    /\ UNCHANGED <<inputMode, selectedVoiceId, isStreamActiveRef, turns, lastTranscript,
                   audioVars, notBrowser>>

\* onModeToggle / onSwitchToTextMode
SwitchMode ==
    /\ caseContext
    /\ LET mode == IF inputMode = "text" THEN "voice" ELSE "text"
       IN  /\ inputMode' = mode
           /\ RunEffects([Current(isAiSpeaking) EXCEPT !.mode = mode], isStreamActiveRef)
    /\ UNCHANGED <<sessionState, selectedVoiceId, caseContext, clientSessionId, isStreamActiveRef, turns,
                   lastTranscript, audioVars, notBrowser>>

\* the session buttons of QuickActions: setSessionState
SessionButton ==
    /\ caseContext
    /\ inputMode = "voice"
    /\ \E next \in {"idle", "active", "paused"} \ {sessionState} :
           /\ sessionState' = next
           /\ RunEffects([Current(isAiSpeaking) EXCEPT !.session = next], isStreamActiveRef)
    /\ UNCHANGED <<inputMode, selectedVoiceId, caseContext, clientSessionId, isStreamActiveRef, turns,
                   lastTranscript, audioVars, notBrowser>>

\* onVoiceSelect: a voice, or "Default (No Voice)"
SelectVoice ==
    /\ selectedVoiceId' = ~selectedVoiceId
    /\ RunEffects([Current(isAiSpeaking) EXCEPT !.voice = ~selectedVoiceId], isStreamActiveRef)
    /\ UNCHANGED <<inputMode, sessionState, caseContext, clientSessionId, isStreamActiveRef, turns,
                   lastTranscript, audioVars, notBrowser>>

\* ChatInput's onSendMessage: handleSendMessage of the last render, up to its
\* first await
SubmitText ==
    /\ caseContext
    /\ inputMode = "text"
    /\ Len(turns) < MaxTurns
    /\ isStreamActiveRef' = TRUE
    /\ turns' = Append(turns, Turn("fetch", selectedVoiceId, rendered.sid))
    /\ RunEffects(Current(TRUE), TRUE)
    /\ UNCHANGED <<inputMode, sessionState, selectedVoiceId, caseContext, clientSessionId, lastTranscript,
                   audioVars, notBrowser>>

\* recognition.onresult with a final transcript: handleFinalSpeech, which
\* calls the handleSendMessage of the first render
FinalTranscript(blank) ==
    /\ recognition \in {"on", "stopping"}
    /\ LET accepted == shouldAcceptSpeechRef /\ ~blank
       IN  /\ accepted => Len(turns) < MaxTurns
           /\ lastTranscript' = Transcript(TRUE, isAiSpeaking, accepted,
                                           inputMode = "voice", sessionState = "active")
           /\ IF accepted
              THEN /\ isAiSpeaking' = TRUE
                   /\ isStreamActiveRef' = TRUE
                   /\ turns' = Append(turns, Turn("fetch", DefaultVoice, ""))
              ELSE UNCHANGED <<isAiSpeaking, isStreamActiveRef, turns>>
    /\ UNCHANGED <<inputMode, sessionState, selectedVoiceId, caseContext, clientSessionId,
                   shouldAcceptSpeechRef, wasAiSpeakingRef, micCooldown, recognition,
                   rendered, audioVars, notBrowser>>

FinalSpeech == \E blank \in BOOLEAN : FinalTranscript(blank)

\* recognition.onend / onerror: the recognition has ended
RecognitionEnds ==
    /\ recognition \in {"on", "stopping"}
    /\ recognition' = "off"
    /\ UNCHANGED <<isAiSpeaking, inputMode, sessionState, selectedVoiceId, caseContext, clientSessionId,
                   isStreamActiveRef, shouldAcceptSpeechRef, wasAiSpeakingRef, micCooldown,
                   rendered, turns, lastTranscript, audioVars, notBrowser>>

\* React renders the pending state updates and runs the effects
Commit ==
    /\ Current(isAiSpeaking) # rendered
    /\ RunEffects(Current(isAiSpeaking), isStreamActiveRef)
    /\ UNCHANGED <<inputMode, sessionState, selectedVoiceId, caseContext, clientSessionId, isStreamActiveRef,
                   turns, lastTranscript, audioVars, notBrowser>>

\* the callback of micCooldownRef fires
CooldownEnds ==
    /\ micCooldown # "off"
    /\ micCooldown' = "off"
    /\ recognition' = IF micCooldown = "start" THEN StartListening(recognition)
                      ELSE recognition
    /\ UNCHANGED <<isAiSpeaking, inputMode, sessionState, selectedVoiceId, caseContext, clientSessionId,
                   isStreamActiveRef, shouldAcceptSpeechRef, wasAiSpeakingRef, rendered,
                   turns, lastTranscript, audioVars, notBrowser>>

\* await fetch(...) resolves with a readable body
FetchResponds ==
    \E i \in 1..Len(turns) :
        /\ turns[i].stage = "fetch"
        /\ turns' = [turns EXCEPT ![i].stage = "read"]
        /\ UNCHANGED <<isAiSpeaking, inputMode, sessionState, selectedVoiceId, caseContext, clientSessionId,
                       isStreamActiveRef, shouldAcceptSpeechRef, wasAiSpeakingRef,
                       micCooldown, recognition, rendered, lastTranscript, audioVars,
                       notBrowser>>

\* fetch rejects, the response is not ok, or reader.read() rejects: the catch block
RequestFails ==
    \E i \in 1..Len(turns) :
        /\ turns[i].stage \in {"fetch", "read"}
        /\ turns' = [turns EXCEPT ![i].stage = "over"]
        /\ isStreamActiveRef' = FALSE
        /\ isAiSpeaking' = FALSE
        /\ UNCHANGED <<inputMode, sessionState, selectedVoiceId, caseContext, clientSessionId,
                       shouldAcceptSpeechRef, wasAiSpeakingRef, micCooldown, recognition,
                       rendered, lastTranscript, audioVars, notBrowser>>

\* a frame of type session: setSessionId(data.session_id), where the chat
\* route sent session_id || crypto.randomUUID()
SessionFrame ==
    \E i \in 1..Len(turns) :
        /\ turns[i].stage = "read"
        /\ ~turns[i].session
        /\ turns' = [turns EXCEPT ![i].session = TRUE]
        /\ clientSessionId' = IF turns[i].session_id # "" THEN turns[i].session_id ELSE Uuid(i)
        /\ UNCHANGED <<isAiSpeaking, inputMode, sessionState, selectedVoiceId, caseContext,
                       isStreamActiveRef, shouldAcceptSpeechRef, wasAiSpeakingRef,
                       micCooldown, recognition, rendered, lastTranscript, audioVars,
                       notBrowser>>

\* a frame of type audio: addToQueue(data.data)
AudioFrame ==
    \E i \in 1..Len(turns) :
        /\ turns[i].stage = "read"
        /\ added < MaxAudioFrames
        /\ AddToQueue
        /\ UNCHANGED <<pageVars, notBrowser>>

\* a frame of type done
DoneFrame ==
    \E i \in 1..Len(turns) :
        /\ turns[i].stage = "read"
        /\ turns' = [turns EXCEPT ![i].stage = "done"]
        /\ MarkStreamComplete
        /\ isStreamActiveRef' = FALSE
        /\ isAiSpeaking' = IF ~turns[i].voice THEN FALSE ELSE isAiSpeaking
        /\ UNCHANGED <<inputMode, sessionState, selectedVoiceId, caseContext, clientSessionId,
                       shouldAcceptSpeechRef, wasAiSpeakingRef, micCooldown, recognition,
                       rendered, lastTranscript, notBrowser>>

\* reader.read() resolves with done: the loop is left
ReaderDone ==
    \E i \in 1..Len(turns) :
        /\ turns[i].stage \in {"read", "done"}
        /\ turns' = [turns EXCEPT ![i].stage = "over"]
        /\ UNCHANGED <<isAiSpeaking, inputMode, sessionState, selectedVoiceId, caseContext, clientSessionId,
                       isStreamActiveRef, shouldAcceptSpeechRef, wasAiSpeakingRef,
                       micCooldown, recognition, rendered, lastTranscript, audioVars,
                       notBrowser>>

NextPage ==
    \/ CaseSetupComplete
    \/ NewSession
    \/ SwitchMode
    \/ SessionButton
    \/ SelectVoice
    \/ SubmitText
    \/ FinalSpeech
    \/ RecognitionEnds
    \/ Commit
    \/ CooldownEnds
    \/ FetchResponds
    \/ RequestFails
    \/ AudioFrame
    \/ DoneFrame
    \/ ReaderDone
    \/ DecodeDone
    \/ DecodeFails
    \/ SourceEnded
    \/ PlaybackEndTimeout

\* the page where speech synthesis delivers no audio and the voice selection
\* and the session buttons are left alone: what the turns of a conversation carry
NextConversation ==
    \/ CaseSetupComplete
    \/ NewSession
    \/ SwitchMode
    \/ SubmitText
    \/ FinalSpeech
    \/ RecognitionEnds
    \/ Commit
    \/ CooldownEnds
    \/ FetchResponds
    \/ RequestFails
    \/ SessionFrame
    \/ DoneFrame
    \/ ReaderDone

----------------------------------------------------------------------------
(* Marker round trip: a tool embeds a record in its result text, the chat   *)
(* route extracts it with its patterns.                                     *)

MaxField == 2

\* the characters a field of provide_link may hold: the schema is z.string()
LinkTokens == {"a", "|", "]"}

LinkFields == SeqsUpTo(LinkTokens, MaxField)

\* web_search titles ("Source i: domain") and generate_document file names
CitationTitles == {<<"a">>, <<"a", "b">>, <<"b", " ", "a">>}
Filenames == {<<"a", ".pdf">>, <<"a", "_", "b", ".pdf">>}

Records ==
    {[shape |-> "citation", title |-> t, url |-> <<>>, description |-> <<>>] :
        t \in CitationTitles}
    \cup {[shape |-> "download", title |-> f, url |-> <<>>, description |-> <<>>] :
            f \in Filenames}
    \cup {[shape |-> "link", title |-> t, url |-> u, description |-> d] :
            t \in LinkFields \ {<<>>}, u \in LinkFields \ {<<>>}, d \in LinkFields}

\* JSON.stringify(citationData): {"title":"..."}
JsonStringify(title) == <<"{", "T", "q">> \o title \o <<"q", "}">>

\* formatted += `[CITATION:${JSON.stringify(citationData)}]`
EmbedCitation(title) == <<"[C:">> \o JsonStringify(title) \o <<"]">>

\* `[DOWNLOAD_LINK:${filename}]`
EmbedDownload(filename) == <<"[D:">> \o filename \o <<"]">>

\* provideLink: `[LINK_PROVIDED:${title}|${url}|${description}]`
ProvideLink(title, url, description) ==
    <<"[L:">> \o title \o <<"|">> \o url \o <<"|">> \o description \o <<"]">>

\* const [, title, url, description] = match, for every match of linkPattern
LinkCaptures(r) ==
    LET m == MatchesFrom("link", r, 1)
    IN  [k \in 1..Len(m) |->
            [title |-> SubSeq(r, m[k] + 1, LinkBar1(r, m[k]) - 1),
             url |-> SubSeq(r, LinkBar1(r, m[k]) + 1, LinkBar2(r, m[k]) - 1),
             description |-> SubSeq(r, LinkBar2(r, m[k]) + 1, MatchEnd("link", r, m[k]) - 1)]]

\* what the extraction loops of the chat route get out of a result text
Extract(shape, r) ==
    CASE shape = "citation" ->
            LET fs == CitationFrames(r)
            IN  [k \in 1..Len(fs) |->
                    [title |-> fs[k].val.title, url |-> <<>>, description |-> <<>>]]
      [] shape = "download" ->
            LET fs == DownloadFrames(r)
            IN  [k \in 1..Len(fs) |->
                    [title |-> fs[k].val.url, url |-> <<>>, description |-> <<>>]]
      [] shape = "link" -> LinkCaptures(r)

NoMarkers ==
    /\ markerPc = "idle"
    /\ record = [shape |-> "none", title |-> <<>>, url |-> <<>>, description |-> <<>>]
    /\ marker = <<>>
    /\ extracted = <<>>

InitMarkers ==
    /\ markerPc = "record"
    /\ record \in Records
    /\ marker = <<>>
    /\ extracted = <<>>

\* the tool returns its result text
EmbedMarker ==
    /\ markerPc = "record"
    /\ markerPc' = "embedded"
    /\ marker' = CASE record.shape = "citation" -> EmbedCitation(record.title)
                   [] record.shape = "download" -> EmbedDownload(record.title)
                   [] record.shape = "link" ->
                        ProvideLink(record.title, record.url, record.description)
    /\ UNCHANGED <<record, extracted, chatVars, storeVars, audioVars, pageVars, kvVars, runVars>>

\* the chat route handles the functionResponse part
ExtractMarker ==
    /\ markerPc = "embedded"
    /\ markerPc' = "extracted"
    /\ extracted' = Extract(record.shape, marker)
    /\ UNCHANGED <<record, marker, chatVars, storeVars, audioVars, pageVars, kvVars, runVars>>

NextMarkers ==
    \/ EmbedMarker
    \/ ExtractMarker

----------------------------------------------------------------------------
(* The document scope store over the durable backend: KV_REST_API_URL is   *)
(* set.  An operation is a load of the whole store, a change of the copy   *)
(* and a save of the whole copy; other requests run between its awaits.    *)

MaxCalls == 2
MaxOutages == 1

KvSessions == {"staging", "s1"}

\* an operation that has been called and is about to load the store
Pending(op, sessionId, to, id) ==
    [op |-> op, sessionId |-> sessionId, to |-> to, id |-> id, stage |-> "load",
     snapshot |-> EmptyStore, unreachable |-> FALSE, ok |-> FALSE, result |-> <<>>]

\* the operation returns (ok) or throws / answers with an error (not ok)
Returned(c, ok, result, unreachable) ==
    [c EXCEPT !.stage = "done", !.ok = ok, !.result = result,
              !.unreachable = c.unreachable \/ unreachable]

\* readDocument({document_name}) on the loaded store, document_name "a"
ReadDocumentIn(st, sid) ==
    LET docs == SessionDocs(st, sid)
        matching == SelectSeq(docs, LAMBDA d : d.name \in FileNames)
    IN  IF docs = <<>> THEN <<"No documents have been uploaded to this session.">>
        ELSE IF matching = <<>> THEN <<"not found">>
        ELSE <<matching[1].content>>

\* listDocuments() on the loaded store
ListDocumentsIn(st, sid) ==
    LET docs == SessionDocs(st, sid)
    IN  IF docs = <<>> THEN <<"No documents found in this session.">>
        ELSE [i \in 1..Len(docs) |-> docs[i].name]

\* the upload route calls addDocument(sessionId, fileId, ...)
CallAddDocument ==
    \E sessionId \in KvSessions :
        /\ Len(calls) < MaxCalls
        /\ calls' = Append(calls, Pending("addDocument", sessionId, "", Uuid(Len(calls) + 1)))
        /\ UNCHANGED <<kv, outages, chatVars, storeVars, audioVars, pageVars, markerVars, runVars>>

\* getDocumentNames(sessionId), clearSessionDocuments(sessionId)
CallSessionOperation ==
    \E op \in {"getDocumentNames", "clearSessionDocuments"}, sessionId \in KvSessions :
        /\ Len(calls) < MaxCalls
        /\ calls' = Append(calls, Pending(op, sessionId, "", ""))
        /\ UNCHANGED <<kv, outages, chatVars, storeVars, audioVars, pageVars, markerVars, runVars>>

\* the agent calls read_document or list_documents in the session context
CallTool ==
    \E op \in {"readDocument", "listDocuments"} :
        /\ Len(calls) < MaxCalls
        /\ currentSessionId # ""
        /\ calls' = Append(calls, Pending(op, currentSessionId, "", ""))
        /\ UNCHANGED <<kv, outages, chatVars, storeVars, audioVars, pageVars, markerVars, runVars>>

\* POST /api/move-documents { from_session, to_session }
PostMove ==
    \E from_session \in KvSessions, to_session \in KvSessions :
        /\ from_session # to_session
        /\ Len(calls) < MaxCalls
        /\ calls' = Append(calls, Pending("move", from_session, to_session, ""))
        /\ UNCHANGED <<kv, outages, chatVars, storeVars, audioVars, pageVars, markerVars, runVars>>

\* await loadStoreAsync() of call i: the document reader's throws when
\* kv.get rejects, the move route's logs the error and returns {}
Loaded(i) ==
    LET c == calls[i]
        up == kv = "up"
    IN  /\ c.stage = "load"
        /\ calls' = [calls EXCEPT ![i] =
              IF c.op = "move"
              THEN [c EXCEPT !.stage = "save", !.unreachable = ~up,
                             !.snapshot = IF up THEN store ELSE EmptyStore]
              ELSE IF ~up
              THEN Returned(c, FALSE, <<"Failed to load from KV">>, TRUE)
              ELSE CASE c.op = "addDocument" ->
                          [c EXCEPT !.stage = "save", !.snapshot = store]
                     [] c.op = "clearSessionDocuments" ->
                          IF c.sessionId \in DOMAIN store
                          THEN [c EXCEPT !.stage = "save", !.snapshot = store]
                          ELSE Returned(c, TRUE, <<>>, FALSE)
                     [] c.op = "getDocumentNames" ->
                          Returned(c, TRUE, GetDocumentNames(store, c.sessionId), FALSE)
                     [] c.op = "listDocuments" ->
                          Returned(c, TRUE, ListDocumentsIn(store, c.sessionId), FALSE)
                     [] c.op = "readDocument" ->
                          Returned(c, TRUE, ReadDocumentIn(store, c.sessionId), FALSE)]
        /\ UNCHANGED <<kv, outages, chatVars, storeVars, audioVars, pageVars, markerVars, runVars>>

LoadStore == \E i \in 1..Len(calls) : Loaded(i)

\* the change of the loaded copy and await saveStoreAsync(store) of call i:
\* the document reader's throws when kv.set rejects, the move route's logs
\* the error and answers { success: true }
Saved(i) ==
    LET c == calls[i]
        up == kv = "up"
        copy == CASE c.op = "addDocument" ->
                        AddDocumentTo(c.snapshot, c.sessionId, c.id, "a.txt", "x", "upload")
                  [] c.op = "clearSessionDocuments" -> DeleteSession(c.snapshot, c.sessionId)
                  [] c.op = "move" -> MoveStore(c.snapshot, c.sessionId, c.to, TRUE, <<>>)
    IN  /\ c.stage = "save"
        /\ store' = IF up THEN copy ELSE store
        /\ calls' = [calls EXCEPT ![i] =
              IF up THEN Returned(c, TRUE, <<>>, FALSE)
              ELSE IF c.op = "move" THEN Returned(c, TRUE, <<>>, TRUE)
              ELSE Returned(c, FALSE, <<"Failed to save to KV">>, TRUE)]
        /\ UNCHANGED <<kv, outages, currentSessionId, uploads, lastCall, chatVars,
                       audioVars, pageVars, markerVars, runVars>>

SaveStore == \E i \in 1..Len(calls) : Saved(i)

\* the KV service becomes unreachable
KvFails ==
    /\ kv = "up"
    /\ outages < MaxOutages
    /\ kv' = "down"
    /\ outages' = outages + 1
    /\ UNCHANGED <<calls, chatVars, storeVars, audioVars, pageVars, markerVars, runVars>>

\* the KV service is reachable again
KvRecovers ==
    /\ kv = "down"
    /\ kv' = "up"
    /\ UNCHANGED <<outages, calls, chatVars, storeVars, audioVars, pageVars, markerVars, runVars>>

NoCalls ==
    /\ kv = "up"
    /\ outages = 0
    /\ calls = <<>>

\* a turn of session s1 has set the session context
InitKV ==
    /\ store = EmptyStore
    /\ currentSessionId = "s1"
    /\ uploads = 0
    /\ lastCall = Call("none", TRUE, "", <<>>)
    /\ NoCalls

NextKV ==
    \/ CallAddDocument
    \/ CallSessionOperation
    \/ CallTool
    \/ PostMove
    \/ LoadStore
    \/ SaveStore
    \/ KvFails
    \/ KvRecovers

----------------------------------------------------------------------------
(* The documents of a case, as the application uses the store: the case    *)
(* setup form uploads, the chat route sets the session context of a turn,  *)
(* the agent's tools work in that context.  No component of the client     *)
(* posts to /api/move-documents.                                           *)

\* the ids the chat route hands out with crypto.randomUUID() and the page
\* sends back on later turns
TurnSessions == {"s1", "s2"}

\* CaseSetup.handleFileUpload: formData.append('session_id', 'staging')
StageFile ==
    /\ currentSessionId = ""
    /\ \E name \in FileNames : Upload("staging", name)

\* the chat route: currentSessionId = session_id || crypto.randomUUID(),
\* setSessionContext(currentSessionId)
TurnBegins ==
    \E sessionId \in TurnSessions :
        /\ currentSessionId' = sessionId
        /\ UNCHANGED <<notStore, store, uploads, lastCall>>

\* the agent calls list_documents
ListDocuments ==
    /\ currentSessionId # ""
    /\ lastCall' = Call("listDocuments", TRUE, currentSessionId,
                        ListDocumentsIn(store, currentSessionId))
    /\ UNCHANGED <<notStore, store, currentSessionId, uploads>>

\* the agent calls read_document
ReadDocument ==
    /\ currentSessionId # ""
    /\ lastCall' = Call("readDocument", TRUE, currentSessionId,
                        ReadDocumentIn(store, currentSessionId))
    /\ UNCHANGED <<notStore, store, currentSessionId, uploads>>

NextCase ==
    \/ StageFile
    \/ TurnBegins
    \/ ListDocuments
    \/ ReadDocument
    \/ GenerateDocument

----------------------------------------------------------------------------
(* Turns of different sessions handled at the same time by one server      *)
(* process: each chat route call sets the module's session context and     *)
(* then awaits its agent, whose tools read the context when they are       *)
(* called.                                                                 *)

MaxRunning == 2

\* what the ghost records of a document tool call
ToolCall(op, turn, used) == [op |-> op, turn |-> turn, used |-> used]

NoRuns ==
    /\ running = {}
    /\ lastTool = ToolCall("none", "", "")

\* the upload route: a file is added to a session
UploadTo ==
    /\ \E sessionId \in TurnSessions, name \in FileNames : Upload(sessionId, name)
    /\ UNCHANGED runVars

\* the chat route of a turn of session sessionId:
\* setSessionContext(currentSessionId), runner.runAsync(...)
RunBegins ==
    \E sessionId \in TurnSessions \ running :
        /\ Cardinality(running) < MaxRunning
        /\ running' = running \cup {sessionId}
        /\ currentSessionId' = sessionId
        /\ UNCHANGED <<lastTool, store, uploads, lastCall, chatVars, audioVars, pageVars,
                       markerVars, kvVars>>

\* the agent of the turn of session sessionId calls list_documents or
\* read_document: both work on store[currentSessionId]
RunReads ==
    \E sessionId \in running, op \in {"listDocuments", "readDocument"} :
        /\ currentSessionId # ""
        /\ lastCall' = Call(op, TRUE, currentSessionId,
                            IF op = "listDocuments"
                            THEN ListDocumentsIn(store, currentSessionId)
                            ELSE ReadDocumentIn(store, currentSessionId))
        /\ lastTool' = ToolCall(op, sessionId, currentSessionId)
        /\ UNCHANGED <<running, store, currentSessionId, uploads, chatVars, audioVars,
                       pageVars, markerVars, kvVars>>

\* the agent of the turn of session sessionId calls generate_document:
\* addDocument(getSessionContext() || 'global', filename, filename, content, 'generated')
RunGenerates ==
    \E sessionId \in running, filename \in GeneratedNames, content \in Contents :
        LET used == IF currentSessionId # "" THEN currentSessionId ELSE "global"
        IN  /\ store' = AddDocumentTo(store, used, filename, filename, content, "generated")
            /\ lastCall' = Call("addDocument", TRUE, "", <<>>)
            /\ lastTool' = ToolCall("generateDocument", sessionId, used)
            /\ UNCHANGED <<running, currentSessionId, uploads, chatVars, audioVars,
                           pageVars, markerVars, kvVars>>

\* the for-await loop of the turn is left: the context is not reset
RunEnds ==
    \E sessionId \in running :
        /\ running' = running \ {sessionId}
        /\ UNCHANGED <<lastTool, storeVars, chatVars, audioVars, pageVars, markerVars, kvVars>>

NextRuns ==
    \/ UploadTo
    \/ RunBegins
    \/ RunReads
    \/ RunGenerates
    \/ RunEnds

----------------------------------------------------------------------------
(* Specifications *)

\* no turn is in flight
NoTurn ==
    /\ pc = "idle"
    /\ request = [bodyValid |-> FALSE, session_id |-> "", voice_id |-> FALSE,
                  codec |-> FALSE, case_context |-> FALSE, script |-> <<>>, segs |-> <<>>]
    /\ events = <<>>
    /\ consumed = 0
    /\ fullTextResponse = <<>>
    /\ sentenceIdx = 0
    /\ synthesized = <<>>
    /\ cancelled = FALSE
    /\ escaped = FALSE
    /\ emitted = <<>>
    /\ sessions = [id \in {} |-> 0]
    /\ history = <<>>
    /\ turnNo = 1

\* the document store is empty
NoDocuments == InitStore

\* the page is not open
NoBrowser == InitAudio /\ InitPage

\* nothing of the parts that are modelled on their own is in progress
NoExtra == NoMarkers /\ NoCalls /\ NoRuns

Init == InitChat /\ NoDocuments /\ NoBrowser /\ NoExtra

Next == NextChat

Spec == Init /\ [][Next]_vars

InitSessionOnly == InitSession /\ NoDocuments /\ NoBrowser /\ NoExtra

SpecSession == InitSessionOnly /\ [][NextSession]_vars

InitStoreOnly == NoTurn /\ InitStore /\ NoBrowser /\ NoExtra

SpecStore == InitStoreOnly /\ [][NextStore]_vars

InitAudioOnly == NoTurn /\ NoDocuments /\ InitAudio /\ InitPage /\ NoExtra

SpecAudio == InitAudioOnly /\ [][NextAudio]_vars

InitClient == NoTurn /\ NoDocuments /\ InitAudio /\ InitPage /\ NoExtra

SpecClient == InitClient /\ [][NextPage]_vars

InitMarkersOnly == NoTurn /\ NoDocuments /\ NoBrowser /\ InitMarkers /\ NoCalls /\ NoRuns

SpecMarkers == InitMarkersOnly /\ [][NextMarkers]_vars

SpecConversation == InitClient /\ [][NextConversation]_vars

SpecCase == InitStoreOnly /\ [][NextCase]_vars

SpecRuns == InitStoreOnly /\ [][NextRuns]_vars

InitKVOnly == NoTurn /\ NoBrowser /\ NoMarkers /\ InitKV /\ NoRuns

SpecKV == InitKVOnly /\ [][NextKV]_vars

----------------------------------------------------------------------------
(* Properties of the chat route *)

Terminal(f) == f.type \in {"done", "error"}

CountType(fs, t) == Cardinality({i \in 1..Len(fs) : fs[i].type = t})

\* C1 (as claimed): every execution of the chat route ends its stream with
\* exactly one terminal event, done or error, and nothing after it.
C1_EveryExecutionTerminal ==
    pc = "closed" =>
        /\ events # <<>>
        /\ Terminal(events[Len(events)])
        /\ \A i \in 1..(Len(events) - 1) : ~Terminal(events[i])

\* C1 (amended): a stream never carries an event after a terminal event, so
\* it carries at most one; and when the client is still connected when the
\* handler closes the stream, the stream ends with exactly one terminal
\* event, whether the turn succeeded or request parsing, the session
\* service or the agent run loop threw.
C1_TerminalWhileConnected ==
    /\ \A i \in 1..Len(events) : Terminal(events[i]) => i = Len(events)
    /\ (pc = "closed" /\ ~cancelled) => (events # <<>> /\ Terminal(events[Len(events)]))

\* C1 witness: the agent run loop threw after content was streamed, and the
\* stream was closed behind an error frame.
C1_Witness ==
    /\ pc = "closed" /\ ~cancelled /\ consumed >= 1
    /\ CountType(events, "content") >= 1
    /\ events[Len(events)].type = "error"

\* C3 (as claimed): the first event written to a turn's stream is the
\* session event; nothing is emitted before it, also for turns that fail.
C3_SessionFirst ==
    events # <<>> => events[1].type = "session"

\* C4: within one turn no content event follows an audio event.
C4_NoContentAfterAudio ==
    \A i \in 1..Len(events) : \A j \in 1..Len(events) :
        (events[i].type = "audio" /\ i < j) => events[j].type # "content"

\* C4 witness: a finished turn that streamed two content events and two
\* audio events.
C4_Witness ==
    /\ pc = "closed"
    /\ CountType(events, "content") >= 2
    /\ CountType(events, "audio") >= 2
    /\ events[Len(events)].type = "done"

\* C13: the case-context prefix is prepended to the user message exactly
\* when the request carries case_context and the session has no prior
\* events; and of the turns that run one after the other on one session,
\* none but the first carries the prefix
C13_PrefixOnlyOnFirstTurn ==
    /\ \A k \in 1..Len(history) :
          history[k].prefixed <=> (history[k].case_context /\ history[k].prior = 0)
    /\ \A j \in 1..Len(history) : \A k \in 1..Len(history) :
          (j < k /\ history[j].sessionId = history[k].sessionId) => ~history[k].prefixed

\* C13 witness: two turns on one session, both with case_context; the first
\* was given the prefix and the second was not
C13_Witness ==
    /\ Len(history) = 2
    /\ history[1].sessionId = history[2].sessionId
    /\ history[1].case_context /\ history[2].case_context
    /\ history[1].prefixed /\ ~history[2].prefixed

\* the audio frames of the sentences whose synthesis returned audio, in order
AudioFrames(syn) ==
    LET all == [k \in 1..Len(syn) |-> Frame("audio", k)]
    IN  SelectSeq(all, LAMBDA f : syn[f.val])

\* C16: whatever subset of the sentences fails to synthesize (generateSpeech
\* returns null), the stream of a turn whose client is connected carries,
\* after the frames of the agent's events, unchanged, exactly one audio
\* frame for each sentence that was synthesized, in sentence order, and the
\* turn ends with done when the last sentence has been handled.
C16_AudioPerSynthesizedSentence ==
    (~cancelled /\ synthesized # <<>>) =>
        /\ events = <<Frame("session", CurrentSessionId)>> \o Flatten(emitted)
                        \o AudioFrames(synthesized)
                        \o (IF pc = "closed" THEN <<Frame("done", "")>> ELSE <<>>)
        /\ pc = "closed" <=> Len(synthesized) = Len(AudioPlan(fullTextResponse))

\* C16 witness: a turn of two sentences, the first failed to synthesize and
\* the second did not; the stream ended with one audio frame and done.
C16_Witness ==
    /\ pc = "closed" /\ ~cancelled
    /\ synthesized = <<FALSE, TRUE>>
    /\ CountType(events, "audio") = 1
    /\ CountType(events, "content") >= 1
    /\ events[Len(events)].type = "done"

\* the script is a streamed answer: partial text events followed by one
\* non-partial text event that repeats the assembled text, no tool parts
StreamedAnswer(sc) ==
    /\ Len(sc) >= 2
    /\ \A k \in 1..(Len(sc) - 1) :
          /\ sc[k].partial = "true" /\ sc[k].content /\ Len(sc[k].parts) = 1
          /\ sc[k].parts[1].kind = "text" /\ sc[k].parts[1].text # <<>>
    /\ sc[Len(sc)].partial # "true" /\ sc[Len(sc)].content
    /\ sc[Len(sc)].parts =
          <<TextPart(Flatten([k \in 1..(Len(sc) - 1) |-> sc[k].parts[1].text]))>>

VisibleText(e) ==
    e.content /\ \E i \in 1..Len(e.parts) :
        e.parts[i].kind = "text" /\ NonBlank(CleanText(e.parts[i].text))

\* C22 (as claimed): a text-bearing agent event goes without a content
\* event only if it is non-partial, carries no tool response, and content
\* has already been streamed in this turn; in particular a non-partial
\* event that arrives before any content was streamed yields a content event
C22_SkippedOnlyAfterContent ==
    \A k \in 1..Len(emitted) :
        (VisibleText(request.script[k]) /\ CountType(emitted[k], "content") = 0) =>
            /\ request.script[k].partial # "true"
            /\ ~HasFunctionResponse(request.script[k])
            /\ \E j \in 1..(k - 1) : CountType(emitted[j], "content") >= 1

\* C28 (as claimed): after the client has disconnected mid-stream (frames
\* have been written, and none can be written any more) the chat
\* route's further writes fail silently: no exception leaves the stream's
\* start handler, neither from the producing loop nor from writing the error
\* frame nor from closing the stream
C28_NoExceptionEscapes == (cancelled /\ events # <<>>) => ~escaped

\* fullTextResponse as it was when the k-th agent event was taken
RECURSIVE FullBefore(_)
FullBefore(k) ==
    IF k = 1 THEN <<>>
    ELSE FullBefore(k - 1) \o EventText(request.script[k - 1], FullBefore(k - 1))

\* the text parts of the k-th agent event, each with its markers removed,
\* if the skip rule accepted the event
AcceptedText(k) ==
    LET e == request.script[k]
    IN  IF ~e.content \/ SkipEvent(e, FullBefore(k)) THEN <<>>
        ELSE Flatten([i \in 1..Len(e.parts) |->
                        IF e.parts[i].kind = "text" THEN CleanText(e.parts[i].text) ELSE <<>>])

\* the texts of the content frames among fs, concatenated
ContentText(fs) ==
    LET cs == SelectSeq(fs, LAMBDA f : f.type = "content")
    IN  Flatten([i \in 1..Len(cs) |-> cs[i].val])

\* C29 (as claimed): the concatenation of the texts of the emitted content
\* events equals the concatenation of the accepted text parts with the
\* citation, download and link markers removed, and no content event
\* holds a marker
C29_ContentIsTheCleanedText ==
    /\ ContentText(Flatten(emitted)) =
           Flatten([k \in 1..Len(emitted) |-> AcceptedText(k)])
    /\ \A i \in 1..Len(events) :
          events[i].type = "content" =>
              \A j \in 1..Len(events[i].val) : events[i].val[j] \notin {"[C:", "[D:", "[L:"}

\* C6 (as claimed): every tool-call-request part yields a tool_call event,
\* whatever the partial flag of its event, and the frames of the agent's
\* events reach the stream in the agent's order, so that the tool_call
\* event precedes the citation events of the tool's response.
C6_EveryToolCallAnnounced ==
    /\ \A k \in 1..consumed : \A i \in 1..Len(request.script[k].parts) :
          request.script[k].parts[i].kind = "functionCall" =>
              \E f \in 1..Len(emitted[k]) :
                  emitted[k][f] = Frame("tool_call", request.script[k].parts[i].name)
    /\ pc = "run" =>
          events = <<Frame("session", CurrentSessionId)>> \o Flatten(emitted)

\* the titles of the source citations among frames, in order
SourceTitles(fs) ==
    LET src == SelectSeq(fs, LAMBDA f : f.type = "citation" /\ f.val.kind = "source")
    IN  [k \in 1..Len(src) |-> src[k].val.title]

\* the titles of the well-formed markers among segments, in order
ExpectedTitles(segs) ==
    LET ok == SelectSeq(segs, LAMBDA n : n \in WellFormed)
    IN  [k \in 1..Len(ok) |-> SegmentTitle(ok[k])]

\* C7 (as claimed): a tool response yields exactly one citation event per
\* well-formed citation marker, in left-to-right order; a marker with
\* malformed JSON is skipped and does not stop the extraction of the
\* markers after it.
C7_OneCitationPerWellFormedMarker ==
    (request.codec /\ consumed = 1) =>
        SourceTitles(emitted[1]) = ExpectedTitles(request.segs)

\* C17 (as claimed): a record embedded in a marker by its tool and extracted
\* by the chat route's pattern comes out as the one record that went in, for
\* each of the three marker shapes and every record the tools can produce.
C17_MarkerRoundTrip ==
    markerPc = "extracted" =>
        extracted = <<[title |-> record.title, url |-> record.url,
                       description |-> record.description]>>

----------------------------------------------------------------------------
(* Properties of the document scope store *)

AllNames == FileNames \cup GeneratedNames

\* how many entries of a list of names are the name n
Count(names, n) == Cardinality({i \in 1..Len(names) : names[i] = n})

\* how many documents named n the store st holds under session id s
Stored(st, s, n) ==
    IF s \in DOMAIN st
    THEN Cardinality({i \in 1..Len(st[s]) : st[s][i].name = n})
    ELSE 0

\* C9: after any sequence of addDocument, move and clearSessionDocuments
\* operations, getDocumentNames(s) returns exactly the names of the documents
\* stored under session id s (each name as often as s holds a document of
\* that name) and no name of a document stored only under another session id
C9_NamesOfTheSession ==
    (lastCall.op = "getDocumentNames" /\ lastCall.sessionId \in SessionIds) =>
        /\ \A n \in AllNames :
               Count(lastCall.result, n) = Stored(store, lastCall.sessionId, n)
        /\ \A i \in 1..Len(lastCall.result) :
               /\ lastCall.result[i] \in AllNames
               /\ Stored(store, lastCall.sessionId, lastCall.result[i]) > 0

\* getDocumentNames("s1") has answered with the names of s1 while the session
\* context is another session and another session holds a document whose name
\* s1 does not hold
C9_Witness ==
    /\ lastCall.op = "getDocumentNames"
    /\ lastCall.sessionId = "s1"
    /\ lastCall.result # <<>>
    /\ currentSessionId \notin {"", "s1"}
    /\ \E t \in DOMAIN store \ {"s1"} : \E i \in 1..Len(store[t]) :
           Count(lastCall.result, store[t][i].name) = 0

\* C10: a step move(from, to) without document ids and with from # to leaves
\* no document listed under from (its entry is deleted) and leaves listed
\* under to every document from held and every document to already held
C10_MoveAllTransfers ==
    [][\A from \in SessionIds, to \in SessionIds :
           (from # to /\ Move(from, to, TRUE, <<>>)) =>
               /\ from \notin DOMAIN store'
               /\ \A n \in AllNames :
                      /\ Stored(store', from, n) = 0
                      /\ Stored(store', to, n) = Stored(store, to, n) + Stored(store, from, n)]_vars

\* the documents the store st holds, under whatever session
Documents(st) == UNION {{st[s][i] : i \in 1..Len(st[s])} : s \in DOMAIN st}

\* C30 (as claimed): the move operation never destroys a document: for every
\* pair of session ids the route accepts, from equal to to and a target that
\* already holds a document of the same id included, and any list of
\* document ids, every document stored before the move is stored under some
\* session after it
C30_MoveKeepsEveryDocument ==
    [][lastCall'.op = "move" => Documents(store) \subseteq Documents(store')]_vars

\* C26 (as claimed): when turns of two different sessions run at the same
\* time, every document tool call made on behalf of a session's turn
\* (read_document, list_documents, generate_document's mirror write) reads
\* and writes only the documents stored under that session
C26_ToolsUseTheTurnsSession ==
    lastTool.op # "none" => lastTool.used = lastTool.turn

\* C12 (as claimed): once a turn has been assigned its session id, the
\* documents uploaded during case setup have been moved to that session:
\* list_documents and read_document executed in it see them
C12_StagedDocumentsVisible ==
    (lastCall.op \in {"listDocuments", "readDocument"} /\ uploads > 0) =>
        \/ lastCall.op = "listDocuments"
              /\ \A name \in FileNames :
                    \E i \in 1..Len(lastCall.result) : lastCall.result[i] = name
        \/ lastCall.op = "readDocument" /\ lastCall.result = <<"x">>

\* C14 (as claimed): an operation of the store that finds the KV service
\* unreachable, at its load or at its save, reports a failure to its caller
C14_UnreachableIsReported ==
    \A i \in 1..Len(calls) :
        (calls[i].stage = "done" /\ calls[i].unreachable) => ~calls[i].ok

\* C15 (as claimed): when two addDocument calls for different sessions,
\* possibly overlapping, have both completed, each session holds the
\* document added to it
C15_BothAddsTakeEffect ==
    (/\ Len(calls) = 2
     /\ \A i \in 1..2 : calls[i].op = "addDocument" /\ calls[i].stage = "done" /\ calls[i].ok
     /\ calls[1].sessionId # calls[2].sessionId)
    => \A i \in 1..2 : Has(SessionDocs(store, calls[i].sessionId), calls[i].id)

----------------------------------------------------------------------------
(* Properties of the audio queue hook *)

\* C8: as long as stop() has not been called, isPlaying is true from the
\* first addToQueue on, and it is false only if markStreamComplete() has been
\* called since the last addToQueue and no chunk added so far is still
\* decoding, queued or playing
C8_PlayingUntilDrained ==
    (~stopped /\ added > 0 /\ ~isPlaying) =>
        /\ completeSince
        /\ decoding = {}
        /\ queue = <<>>
        /\ sounding = {}

\* C19: if markStreamComplete() has been called and no chunk was enqueued
\* after it, then once every enqueued chunk has finished playing or failed
\* to decode, isPlaying becomes false, whether markStreamComplete() came
\* before or after the grace timer; checked in the states where no chunk is
\* left and no timer is pending, so that no step of the hook is left
C19_DrainedQueueStops ==
    (completeSince /\ decoding = {} /\ queue = <<>> /\ sounding = {}
        /\ ~playbackEndTimeout)
    => ~isPlaying

\* C23 (as claimed): the buffers are played in the order in which their
\* chunks were passed to addToQueue, whatever the order in which the decodes
\* complete, and at most one buffer is playing at any time; stated for the
\* playback that no stop() has interrupted
C23_PlayedInOrderOneAtATime ==
    ~stopped =>
        /\ \A i \in 1..Len(played) : \A j \in 1..Len(played) :
              i < j => played[i] < played[j]
        /\ Cardinality(sounding) <= 1

\* C24 (as claimed): no chunk passed to addToQueue before stop(), also one
\* whose decode was still in flight, is played after the stop(); and when
\* the end callback of a source that stop() has stopped starts a buffer, no
\* other buffer is playing
C24_StopDiscardsEarlierChunks ==
    [][/\ \A c \in sounding' \ sounding : c > stoppedAt
       /\ (halted' # halted /\ stoppedAt' = stoppedAt /\ sounding' \ sounding # {})
              => sounding \ halted = {}]_vars

----------------------------------------------------------------------------
(* Properties of the page *)

\* C2: a final transcript delivered while isAiSpeaking is true is rejected,
\* not submitted as a user turn, whatever the input mode and the session
\* state are, also between handleSendMessage setting isAiSpeaking and the
\* effect that updates shouldAcceptSpeechRef
C2_RejectedWhileAiSpeaking ==
    (lastTranscript.delivered /\ lastTranscript.aiSpeaking) => ~lastTranscript.accepted

\* C11 (as claimed): once the page has received a session event with id S,
\* every turn it submits, typed or from an accepted voice transcript,
\* carries session_id = S, until New Session resets the id
C11_TurnsCarrySessionId ==
    \A i \in 1..Len(turns) :
        turns[i].known # "" => turns[i].session_id = turns[i].known

\* the turn has ended and nothing of it is left to happen: no reader, no
\* chunk decoding, queued or playing, no timer, no render pending
Quiet ==
    /\ turns # <<>>
    /\ \A i \in 1..Len(turns) : turns[i].stage = "over"
    /\ decoding = {}
    /\ queue = <<>>
    /\ sounding = {}
    /\ ~isPlaying
    /\ ~playbackEndTimeout
    /\ micCooldown = "off"
    /\ rendered = Current(isAiSpeaking)

\* C18: once the stream of every turn has ended (done, error or a transport
\* failure) and all audio has finished playing, isAiSpeaking becomes false,
\* also when a voice is selected and no audio chunk was delivered; checked
\* in the states where no step of the page is left that could still reset it
C18_ReleasedAfterTurn == Quiet => ~isAiSpeaking

\* C20: a final transcript delivered while the arbitration is not Listening
\* (the agent is speaking, text input mode, or a session that is not active)
\* is discarded and not submitted as a user turn
C20_DiscardedUnlessListening ==
    (lastTranscript.delivered
        /\ (lastTranscript.aiSpeaking \/ ~lastTranscript.voiceMode \/ ~lastTranscript.active))
    => ~lastTranscript.accepted

\* C21: while the 500 ms cooldown timer armed when isAiSpeaking went from
\* true to false is pending, the microphone is not started: the only step
\* that starts it is the timer's own callback, whatever changes of inputMode
\* and sessionState are rendered during the cooldown
C21_NoStartDuringCooldown ==
    [][(micCooldown # "off" /\ recognition # "on" /\ recognition' = "on")
           => (micCooldown' = "off" /\ rendered' = rendered)]_vars

\* C25 (as claimed): when a new turn is submitted while a previous turn's
\* stream is still being read or its audio is queued or playing, the page
\* calls stop() on the audio queue and abandons the previous turn's reader,
\* so that only the newest turn can still deliver frames
C25_NewTurnCancelsPrevious ==
    /\ \A i \in 1..(Len(turns) - 1) : turns[i].stage = "over"
    /\ (Len(turns) >= 2 /\ (decoding # {} \/ queue # <<>> \/ sounding # {})) => stopped

\* C27 (as claimed): with a voice selected, isAiSpeaking is true whenever a
\* submitted turn has not yet received its terminal event or audio is still
\* decoding, queued or playing, also when a second turn was submitted while
\* the first was still streaming
C27_SpeakingWhileInFlight ==
    (selectedVoiceId
        /\ \/ \E i \in 1..Len(turns) : turns[i].voice /\ turns[i].stage \in {"fetch", "read"}
           \/ decoding # {} \/ queue # <<>> \/ sounding # {})
    => isAiSpeaking
====
